---------------------------- MODULE Spec2Model ----------------------------
(***************************************************************************)
(* A model of the catalog extraction pipeline of course-correct            *)
(* (backend/app/services/unl.py): clean_value, parse_title_parts,          *)
(* parse_course_block and get_unl_course_info.                             *)
(* and of two tool handlers of the agent (backend/app/agent/tools):        *)
(* get_professor_summary with its cache, and generate_schedule with the    *)
(* course-info handler it calls.                                           *)
(*                                                                         *)
(* A Python str is a sequence of symbols.  A symbol is one character       *)
(* (" ", ":", "-", "/", ".", a digit, a letter, NBSP for U+00A0, TAB for   *)
(* U+0009) or an indivisible word of ordinary characters (a label such as  *)
(* "Credit Hours", a term tag such as "FALL").  Python's None / a missing  *)
(* element is the empty tuple <<>> and a present one is <<x>>.             *)
(***************************************************************************)
EXTENDS Integers, Sequences, FiniteSets, TLC

VARIABLES
    pc,            \* position of the running call
    course_code,   \* get_unl_course_info: the argument
    query,         \* get_unl_course_info: the encoded term (line 144)
    blocks,        \* get_unl_course_info: <<soup.find_all(...)>> (line 152), <<>> before
    courses,       \* get_unl_course_info: <<the parsed records>> (line 157), <<>> before
    result,        \* get_unl_course_info: the returned value, <<>> before return
    propagated,    \* get_unl_course_info: the exception that left the call, <<>> if none
    gets,          \* number of requests.get calls made by the running call
    r,             \* what requests.get gave: a response or a raised exception
    v,             \* clean_value: the argument
    once,          \* clean_value(v)
    twice,         \* clean_value(clean_value(v))
    text,          \* parse_title_parts: the heading
    known_code,    \* parse_title_parts: the hint
    parts,         \* parse_title_parts: the returned pair, <<>> before return
    block,         \* parse_course_block: the fragment
    search_query,  \* parse_course_block: the original query
    final,         \* parse_course_block: the returned record, <<>> before return
    cache,         \* rmp_tool: _PROFESSOR_SUMMARY_CACHE
    calls,         \* rmp_tool: the get_professor_summary calls made so far, in order
    payload,       \* generate_schedule: the payload's "courses" value
    idx,           \* generate_schedule: index of the entry the loop is at
    course_data_list,  \* generate_schedule: the list built for the renderer
    errors,        \* generate_schedule: the error strings collected
    outcome        \* generate_schedule: the returned pair or raised exception

vars == <<pc, course_code, query, blocks, courses, result, propagated, gets, r,
          v, once, twice, text, known_code, parts, block, search_query, final,
          cache, calls,
          payload, idx, course_data_list, errors, outcome>>

catalogVars == <<course_code, query, blocks, courses, result, propagated, gets, r>>
cleanVars   == <<v, once, twice>>
titleVars   == <<text, known_code, parts>>
blockVars   == <<block, search_query, final>>
cacheVars   == <<cache, calls>>
schedVars   == <<payload, idx, course_data_list, errors, outcome>>

CatalogIdle == /\ course_code = <<>> /\ query = <<>> /\ blocks = <<>>
               /\ courses = <<>> /\ result = <<>> /\ propagated = <<>> /\ gets = 0
               /\ r = [kind |-> "none"]
CleanIdle   == v = <<>> /\ once = <<>> /\ twice = <<>>
TitleIdle   == text = <<>> /\ known_code = <<>> /\ parts = <<>>
BlockIdle   == block = <<>> /\ search_query = <<>> /\ final = <<>>
CacheIdle   == cache = <<>> /\ calls = <<>>
SchedIdle   == /\ payload = <<>> /\ idx = 0 /\ course_data_list = <<>>
               /\ errors = <<>> /\ outcome = [kind |-> "none"]

-----------------------------------------------------------------------------
(* Characters and the str methods the code uses.                           *)

NBSP == "NBSP"
TAB  == "TAB"

\* str.isspace() / regex \s for the characters of the model
IsSpace(c) == c \in {" ", NBSP, TAB}

\* all strings over chars of length at most n
StringsUpTo(chars, n) == UNION {[1..k -> chars] : k \in 0..n}

RECURSIVE LStripSet(_, _)
\* str.lstrip(chars)
LStripSet(s, chars) ==
    IF s # <<>> /\ Head(s) \in chars THEN LStripSet(Tail(s), chars) ELSE s

RECURSIVE RStripSet(_, _)
\* str.rstrip(chars)
RStripSet(s, chars) ==
    IF s # <<>> /\ s[Len(s)] \in chars
    THEN RStripSet(SubSeq(s, 1, Len(s) - 1), chars) ELSE s

\* str.strip(chars)
StripSet(s, chars) == RStripSet(LStripSet(s, chars), chars)

\* str.strip(): leading and trailing whitespace
Strip(s) == StripSet(s, {c \in {s[i] : i \in 1..Len(s)} : IsSpace(c)})

RECURSIVE Interleave(_, _)
\* s.replace("", new): new before every character and at the end
Interleave(s, new) ==
    IF s = <<>> THEN new ELSE new \o <<Head(s)>> \o Interleave(Tail(s), new)

RECURSIVE ReplaceFrom(_, _, _)
ReplaceFrom(s, old, new) ==
    IF Len(s) < Len(old) THEN s
    ELSE IF SubSeq(s, 1, Len(old)) = old
         THEN new \o ReplaceFrom(SubSeq(s, Len(old) + 1, Len(s)), old, new)
         ELSE <<Head(s)>> \o ReplaceFrom(Tail(s), old, new)

\* str.replace(old, new): every non-overlapping occurrence, left to right
Replace(s, old, new) ==
    IF old = <<>> THEN Interleave(s, new) ELSE ReplaceFrom(s, old, new)

\* str.upper() on one symbol: the symbols of the model with a lower-case
\* letter are "a" and the words; every other symbol is its own upper case
UpperChar(c) ==
    CASE c = "a" -> "A"
      [] c = "Computer" -> "COMPUTER"
      [] c = "Science" -> "SCIENCE"
      [] c = "csce" -> "CSCE"
      [] OTHER -> c
Upper(s) == [i \in 1..Len(s) |-> UpperChar(s[i])]

\* the regex classes [A-Z], \d and \s
UpperLetters == {"A", "B", "C", "D", "E", "F", "G", "H", "I", "J", "K", "L", "M",
                 "N", "O", "P", "Q", "R", "S", "T", "U", "V", "W", "X", "Y", "Z"}
Digits == {"0", "1", "2", "3", "4", "5", "6", "7", "8", "9"}
Spaces == {" ", NBSP, TAB}

\* the length of the longest run of characters of class at s[i], s[i+1], ...
\* (a greedy quantifier over a character class)
Run(s, i, class) ==
    CHOOSE k \in 0..(Len(s) + 1 - i) :
        /\ \A j \in i..(i + k - 1) : s[j] \in class
        /\ (i + k > Len(s) \/ s[i + k] \notin class)

\* str.startswith(prefix)
StartsWith(s, prefix) ==
    Len(prefix) <= Len(s) /\ SubSeq(s, 1, Len(prefix)) = prefix

-----------------------------------------------------------------------------
(* clean_value (unl.py 27-29)                                              *)

clean_value(x) ==
    Strip(LStripSet(Strip(Replace(x, <<NBSP>>, <<" ">>)), {":"}))

MaxCleanLen == 4
CleanChars == {" ", NBSP, TAB, ":", "a"}

InitClean ==
    /\ pc = "call"
    /\ v \in StringsUpTo(CleanChars, MaxCleanLen)
    /\ once = <<>> /\ twice = <<>>
    /\ CatalogIdle /\ TitleIdle /\ BlockIdle /\ CacheIdle /\ SchedIdle

\* y = clean_value(x)
CleanOnce ==
    /\ pc = "call"
    /\ once' = clean_value(v)
    /\ pc' = "again"
    /\ UNCHANGED <<v, twice, catalogVars, titleVars, blockVars, cacheVars, schedVars>>

\* z = clean_value(y)
CleanTwice ==
    /\ pc = "again"
    /\ twice' = clean_value(once)
    /\ pc' = "done"
    /\ UNCHANGED <<v, once, catalogVars, titleVars, blockVars, cacheVars, schedVars>>

NextClean == CleanOnce \/ CleanTwice

SpecClean == InitClean /\ [][NextClean]_vars

\* C6: clean_value is idempotent: clean_value(clean_value(x)) = clean_value(x)
\* for every string x over spaces, non-breaking spaces, colons and ordinary
\* characters.
C6_Idempotent == pc = "done" => twice = once

-----------------------------------------------------------------------------
(* parse_title_parts (unl.py 43-63)                                        *)

\* re.match(r"^([A-Z&]{2,}\s+\d+[A-Z]?)\s{1,}(.*)$", s): <<>> when there is no
\* match, else << <<group 1, group 2>> >>.  The classes are disjoint, so the
\* greedy match is the only one: backtracking finds no other.
TitleMatch(s) ==
    LET u  == Run(s, 1, UpperLetters \cup {"&"})
        w1 == Run(s, u + 1, Spaces)
        d  == Run(s, u + w1 + 1, Digits)
        p  == u + w1 + d
        x  == IF p + 1 <= Len(s) /\ s[p + 1] \in UpperLetters THEN 1 ELSE 0
        w2 == Run(s, p + x + 1, Spaces)
    IN  IF u >= 2 /\ w1 >= 1 /\ d >= 1 /\ w2 >= 1
        THEN << <<SubSeq(s, 1, p + x), SubSeq(s, p + x + w2 + 1, Len(s))>> >>
        ELSE <<>>

\* parse_title_parts with the pattern tried before the known-code prefix
parse_title_parts_PatternFirst(txt, known) ==
    LET t == clean_value(txt)
        m == TitleMatch(t)
    IN  IF m # <<>>
        THEN <<clean_value(m[1][1]), clean_value(m[1][2])>>
        ELSE IF StartsWith(Upper(t), Upper(known))
        THEN <<known, clean_value(StripSet(SubSeq(t, Len(known) + 1, Len(t)),
                                           {" ", "-", ":", NBSP}))>>
        ELSE <<known, t>>

\* parse_title_parts without the pattern step
parse_title_parts_NoPattern(txt, known) ==
    LET t == clean_value(txt)
    IN  IF StartsWith(Upper(t), Upper(known))
        THEN <<known, clean_value(StripSet(SubSeq(t, Len(known) + 1, Len(t)),
                                           {" ", "-", ":", NBSP}))>>
        ELSE <<known, t>>

parse_title_parts(txt, known) ==
    LET t == clean_value(txt)
        m == TitleMatch(t)
    IN  IF StartsWith(Upper(t), Upper(known))
        THEN LET remainder == StripSet(SubSeq(t, Len(known) + 1, Len(t)),
                                       {" ", "-", ":", NBSP})
             IN  <<known, clean_value(remainder)>>
        ELSE IF m # <<>>
        THEN <<clean_value(m[1][1]), clean_value(m[1][2])>>
        ELSE <<known, t>>

MaxTailLen == 3
TitleChars == {" ", NBSP, TAB, ":", "-", "A", "a", "1"}

\* 'CSCE 123  Computer Science I' and 'CSCE 123'
ExampleHeading == <<"C", "S", "C", "E", " ", "1", "2", "3", " ", " ",
                    "Computer", " ", "Science", " ", "I">>
ExampleCode == <<"C", "S", "C", "E", " ", "1", "2", "3">>

\* how the headings of the model start
HeadingStarts == { <<>>, <<"A", "A", " ", "1">>, <<"A", " ", "1">>,
                   <<"a", "a", " ", "1">>, <<"A", "&", NBSP, "1", "A">>,
                   <<":", "A", "A", TAB, "1">> }

Headings == {h \o t : h \in HeadingStarts, t \in StringsUpTo(TitleChars, MaxTailLen)}
                \cup {ExampleHeading}

KnownCodes == { <<>>, <<"A", "A">>, <<"A", "A", " ", "1">>, <<"a", "a", " ", "1">>,
                <<"A", "&", " ", "1", "A">>, <<"1">>, ExampleCode }

InitTitle ==
    /\ pc = "call"
    /\ text \in Headings
    /\ known_code \in KnownCodes
    /\ parts = <<>>
    /\ CatalogIdle /\ CleanIdle /\ BlockIdle /\ CacheIdle /\ SchedIdle

\* code, title = parse_title_parts(text, known_code)
SplitTitle ==
    /\ pc = "call"
    /\ parts' = parse_title_parts(text, known_code)
    /\ pc' = "done"
    /\ UNCHANGED <<text, known_code, catalogVars, cleanVars, blockVars, cacheVars, schedVars>>

NextTitle == SplitTitle

SpecTitle == InitTitle /\ [][NextTitle]_vars
\* The normalized heading and what follows the known code in it
NormHeading == clean_value(text)
PrefixHit == StartsWith(Upper(NormHeading), Upper(known_code))
AfterPrefix == StripSet(SubSeq(NormHeading, Len(known_code) + 1, Len(NormHeading)),
                        {" ", "-", ":", NBSP})

\* C9 as stated: when the normalized heading starts with known_code
\* (case-insensitively) the result is (known_code, the rest of the heading with
\* surrounding space/hyphen/colon/non-breaking-space characters stripped).
C9_AsStated == (pc = "done" /\ PrefixHit) => parts = <<known_code, AfterPrefix>>

\* C9 (amended): when the normalized heading starts with known_code
\* (case-insensitively) the result is (known_code verbatim, clean_value of the
\* rest of the heading with surrounding space/hyphen/colon/non-breaking-space
\* characters stripped), whether or not the pattern matches too; the heading
\* 'CSCE 123  Computer Science I' with 'CSCE 123' gives
\* ('CSCE 123', 'Computer Science I').
C9_PrefixStep ==
    /\ (pc = "done" /\ PrefixHit) => parts = <<known_code, clean_value(AfterPrefix)>>
    /\ (pc = "done" /\ text = ExampleHeading /\ known_code = ExampleCode)
           => parts = <<ExampleCode, <<"Computer", " ", "Science", " ", "I">> >>

\* C9 witness: the prefix step decided a heading the pattern matches as well,
\* and the result is not the pattern's
C9_Witness ==
    /\ pc = "done" /\ PrefixHit /\ known_code # <<>>
    /\ TitleMatch(NormHeading) # <<>>
    /\ parts[1] # clean_value(TitleMatch(NormHeading)[1][1])
    /\ parts = <<known_code, clean_value(AfterPrefix)>>

\* c is "n or more uppercase letters or ampersands, whitespace, one or more
\* digits, optionally one uppercase letter"
IsCodeToken(c, n) ==
    \E a \in n..Len(c), b \in 1..Len(c), d \in 1..Len(c) :
        /\ n >= 1
        /\ Len(c) - (a + b + d) \in {0, 1}
        /\ \A j \in 1..a : c[j] \in UpperLetters \cup {"&"}
        /\ \A j \in (a + 1)..(a + b) : c[j] \in Spaces
        /\ \A j \in (a + b + 1)..(a + b + d) : c[j] \in Digits
        /\ Len(c) = a + b + d + 1 => c[Len(c)] \in UpperLetters

\* the ways to read t as "code token, whitespace, remainder": <<p, q>> with the
\* token t[1..p], whitespace t[p+1..q-1] and the remainder t[q..]
FormSplits(t, n) ==
    { pq \in (1..Len(t)) \X (1..(Len(t) + 1)) :
        /\ pq[1] + 1 < pq[2]
        /\ IsCodeToken(SubSeq(t, 1, pq[1]), n)
        /\ \A j \in (pq[1] + 1)..(pq[2] - 1) : t[j] \in Spaces }

\* the result the pattern step is said to give for every such reading
PatternResult(n) ==
    \A pq \in FormSplits(NormHeading, n) :
        parts = <<clean_value(SubSeq(NormHeading, 1, pq[1])),
                  clean_value(SubSeq(NormHeading, pq[2], Len(NormHeading)))>>

\* C10 as stated: a (normalized) heading that does not start with known_code and
\* has the form "ONE or more uppercase letters or ampersands, whitespace,
\* digits with an optional uppercase letter, whitespace, remainder" gives
\* (the code token, the remainder), each normalized.
C10_AsStated == (pc = "done" /\ ~PrefixHit) => PatternResult(1)

\* C10 (amended): a (normalized) heading that does not start with known_code and
\* has the form "TWO or more uppercase letters or ampersands, whitespace, digits
\* with an optional uppercase letter, whitespace, remainder" gives (the code
\* token, the remainder), each normalized, and not the fallback.
C10_PatternStep == (pc = "done" /\ ~PrefixHit) => PatternResult(2)

\* C10 witness: the pattern step decided a heading
C10_Witness ==
    /\ pc = "done" /\ ~PrefixHit
    /\ FormSplits(NormHeading, 2) # {}
    /\ PatternResult(2)
    /\ parts # <<known_code, NormHeading>>

-----------------------------------------------------------------------------
(* parse_course_block (unl.py 31-132)                                      *)
(*                                                                         *)
(* A fragment (one div.courseblock) is what the BeautifulSoup queries of    *)
(* the function see of it:                                                 *)
(*   title  the text of p.courseblocktitle, <<>> when there is none        *)
(*   h3     the text of the enclosing article's h3, <<>> when there is no  *)
(*          article or no h3                                               *)
(*   desc   the text of p.courseblockdesc, <<>> when there is none         *)
(*   ps     the p elements that hold a <strong>, in document order, each    *)
(*          with the text of its first strong and its own text             *)
(*   em     the text of the first em naming FALL, SPR or SUMMER, <<>> when  *)
(*          there is none                                                  *)
(* A dict is a function from keys to values; a value is <<"str", s>>,      *)
(* <<"float", n>> or <<"list", l>>.  An OrderedDict is a sequence of       *)
(* <<key, value>> pairs.                                                   *)

STANDARD_FIELDS == <<
    <<"course_code">>, <<"course_title">>, <<"Prerequisites">>, <<"Description">>,
    <<"Notes">>, <<"Credit Hours">>, <<"min_hours">>, <<"max_hours">>,
    <<"Min credits per semester">>, <<"Max credits per semester">>,
    <<"Max credits per degree">>, <<"Grading Option">>, <<"Offered">>,
    <<"Groups">>, <<"ACE">>, <<"Course and Laboratory Fee">>,
    <<"Experiential Learning">>, <<"Prerequisite for">> >>

Str(x)   == <<"str", x>>
Float(n) == <<"float", n>>
List(l)  == <<"list", l>>

\* d[k] = val
DictSet(d, k, val) == [x \in (DOMAIN d) \cup {k} |-> IF x = k THEN val ELSE d[x]]

\* a or b for two str
Or(a, b) == IF a # <<>> THEN a ELSE b

\* lines 66-86: the heading's match at line 69 / 82 chooses the known code
HeadingParts(heading, sq) ==
    LET m == TitleMatch(heading)
    IN  IF m # <<>>
        THEN parse_title_parts(heading, clean_value(m[1][1]))
        ELSE parse_title_parts(heading, sq)

\* lines 65-86: parsed_code, parsed_title
CodeAndTitle(b, sq) ==
    IF b.title # <<>> THEN HeadingParts(b.title[1], sq)
    ELSE IF b.h3 # <<>> THEN HeadingParts(b.h3[1], sq)
    ELSE <<sq, <<>>>>

\* lines 88-91
InitialInfo(b, sq) ==
    LET ct == CodeAndTitle(b, sq)
    IN  [k \in {<<"course_code">>, <<"course_title">>} |->
            IF k = <<"course_code">> THEN Str(Or(ct[1], sq)) ELSE Str(Or(ct[2], <<>>))]

\* lines 93-95
WithDescription(info, b) ==
    IF b.desc # <<>>
    THEN DictSet(info, <<"Description">>, Str(clean_value(b.desc[1])))
    ELSE info

RECURSIVE ScanLabels(_, _)
\* lines 98-103: every labeled paragraph in document order, the last one wins
ScanLabels(info, ps) ==
    IF ps = <<>> THEN info
    ELSE LET para  == Head(ps)
             label == RStripSet(para.strong, {":"})
             value == Replace(para.text, para.strong, <<>>)
         IN  ScanLabels(DictSet(info, label, Str(clean_value(value))), Tail(ps))

RECURSIVE Split(_, _)
\* str.split(sep) for a one-character sep
Split(s, sep) ==
    IF \E i \in 1..Len(s) : s[i] = sep
    THEN LET i == CHOOSE i \in 1..Len(s) :
                      s[i] = sep /\ \A j \in 1..(i - 1) : s[j] # sep
         IN  <<SubSeq(s, 1, i - 1)>> \o Split(SubSeq(s, i + 1, Len(s)), sep)
    ELSE <<s>>

\* lines 105-114
WithOffered(info, b) ==
    LET i1 == IF b.em # <<>> THEN DictSet(info, <<"Offered">>, Str(b.em[1])) ELSE info
    IN  IF <<"Offered">> \in DOMAIN i1 /\ i1[<<"Offered">>][2] # <<>>
        THEN DictSet(i1, <<"Offered">>,
                     List(Split(Replace(i1[<<"Offered">>][2], <<" ">>, <<>>), "/")))
        ELSE DictSet(i1, <<"Offered">>, List(<<>>))

RECURSIVE FindNums(_)
\* re.findall(r"[0-9]+(?:\.[0-9]+)?", s)
FindNums(s) ==
    IF s = <<>> THEN <<>>
    ELSE IF Head(s) \notin Digits THEN FindNums(Tail(s))
    ELSE LET d == Run(s, 1, Digits)
             f == IF d + 1 <= Len(s) /\ s[d + 1] = "." THEN Run(s, d + 2, Digits) ELSE 0
             n == IF f > 0 THEN d + 1 + f ELSE d
         IN  <<SubSeq(s, 1, n)>> \o FindNums(SubSeq(s, n + 1, Len(s)))

\* the longest Credit Hours text the model enumerates in full
MaxCreditLen == 3

\* the value of one decimal digit
DigitValue(c) ==
    CASE c = "0" -> 0 [] c = "1" -> 1 [] c = "2" -> 2 [] c = "3" -> 3 [] c = "4" -> 4
      [] c = "5" -> 5 [] c = "6" -> 6 [] c = "7" -> 7 [] c = "8" -> 8 [] c = "9" -> 9

RECURSIVE Pow10(_)
Pow10(n) == IF n = 0 THEN 1 ELSE 10 * Pow10(n - 1)

RECURSIVE DigitsValue(_)
\* the integer a string of digits writes
DigitsValue(ds) ==
    IF ds = <<>> THEN 0
    ELSE 10 * DigitsValue(SubSeq(ds, 1, Len(ds) - 1)) + DigitValue(ds[Len(ds)])

\* a float is kept as the integer number of 10^-FloatDigits units it holds;
\* no token of the model has more fractional digits than that
FloatDigits == MaxCreditLen

\* float(tok) for a token of FindNums
ToFloat(tok) ==
    LET d    == Run(tok, 1, Digits)
        frac == SubSeq(tok, d + 2, Len(tok))
    IN  DigitsValue(SubSeq(tok, 1, d)) * Pow10(FloatDigits)
          + DigitsValue(frac) * Pow10(FloatDigits - Len(frac))

\* lines 116-125 with the last token, not the second, as max_hours
WithCreditHours_LastAsMax(info) ==
    IF <<"Credit Hours">> \in DOMAIN info
    THEN LET ch   == clean_value(info[<<"Credit Hours">>][2])
             i1   == DictSet(info, <<"Credit Hours">>, Str(ch))
             nums == FindNums(ch)
         IN  IF Len(nums) >= 1
             THEN DictSet(DictSet(i1, <<"min_hours">>, Float(ToFloat(nums[1]))),
                          <<"max_hours">>, Float(ToFloat(nums[Len(nums)])))
             ELSE i1
    ELSE info

\* lines 116-125
WithCreditHours(info) ==
    IF <<"Credit Hours">> \in DOMAIN info
    THEN LET ch   == clean_value(info[<<"Credit Hours">>][2])
             i1   == DictSet(info, <<"Credit Hours">>, Str(ch))
             nums == FindNums(ch)
         IN  IF Len(nums) >= 2
             THEN DictSet(DictSet(i1, <<"min_hours">>, Float(ToFloat(nums[1]))),
                          <<"max_hours">>, Float(ToFloat(nums[2])))
             ELSE IF Len(nums) = 1
             THEN DictSet(DictSet(i1, <<"max_hours">>, Float(ToFloat(nums[1]))),
                          <<"min_hours">>, Float(ToFloat(nums[1])))
             ELSE i1
    ELSE info

\* lines 127-132 copying only the standard fields that were found
Standardize_PresentOnly(info) ==
    LET found == SelectSeq(STANDARD_FIELDS, LAMBDA k : k \in DOMAIN info)
    IN  [i \in 1..Len(found) |-> <<found[i], info[found[i]]>>]

\* lines 127-132
Standardize(info) ==
    [i \in 1..Len(STANDARD_FIELDS) |->
        <<STANDARD_FIELDS[i],
          IF STANDARD_FIELDS[i] \in DOMAIN info THEN info[STANDARD_FIELDS[i]] ELSE Str(<<>>)>>]

parse_course_block(b, sq) ==
    Standardize(
        WithCreditHours(
            WithOffered(
                ScanLabels(WithDescription(InitialInfo(b, sq), b), b.ps), b)))

(* The fragments and queries parse_course_block is run on.                 *)

MaxParas == 2
CreditChars == {"1", "3", ".", "-"}

\* "3.0 to 4.0 credit hours", "3 Credit Hours", and texts with decimals
CreditExamples == {
    <<"3", ".", "0", " ", "to", " ", "4", ".", "0", " ", "credit", " ", "hours">>,
    <<"3", " ", "Credit", " ", "Hours">>,
    <<"1", ".", "5", "-", "1", ".", "2", "5">>,
    <<"0", "3", "-", "3", ".", "0", "-", "9">>,
    <<"0">>,
    <<":", " ", ":", "1">> }

CreditTexts == StringsUpTo(CreditChars, MaxCreditLen) \cup CreditExamples

\* <p><strong>label</strong> rest</p>
Para(label, rest) ==
    [strong |-> label,
     text   |-> IF rest = <<>> THEN label
                ELSE IF label = <<>> THEN rest ELSE label \o <<" ">> \o rest]

CreditPara(c) == Para(<<"Credit Hours", ":">>, c)

FixedParas == {
    CreditPara(<<"1", "-", "3">>),
    CreditPara(<<"a">>),
    Para(<<"Notes", ":">>, <<"a">>),
    Para(<<"Offered", ":">>, <<"FALL", "/", "SPR">>),
    Para(<<"min_hours">>, <<"3">>),
    Para(<<"max_hours", ":">>, <<"0">>),
    Para(<<"course_code", ":">>, <<"a">>),
    Para(<<"course_code", ":">>, <<>>),
    Para(<<"Foo", ":">>, <<"a">>),
    Para(<<>>, <<"a">>) }

SeqsUpTo(S, n) == UNION {[1..k -> S] : k \in 0..n}

Present(S) == {<<x>> : x \in S}

Titles == {<<>>} \cup Present({ <<>>, <<"a">>,
                                <<"A", "A", NBSP, "1", " ", "a">> })
H3s    == {<<>>} \cup Present({ <<"A", "A", " ", "1", "A", " ", "-", " ", "a">> })
Descs  == {<<>>} \cup Present({ <<":", " ", "a">> })
Ems    == {<<>>} \cup Present({ <<"FALL", " ", "/", " ", "SPR">>,
                                <<"FALL", " ", "/", NBSP, "SPR">> })
Queries == { <<>>, <<"a">>, <<"A", "A", " ", "1">> }

\* fragments that vary in structure
StructureBlocks ==
    { [title |-> t, h3 |-> h, desc |-> d, ps |-> p, em |-> e] :
        t \in Titles, h \in H3s, d \in Descs, e \in Ems,
        p \in SeqsUpTo(FixedParas, MaxParas) }

\* fragments that vary in the text of their Credit Hours paragraph
CreditBlocks ==
    { [title |-> <<>>, h3 |-> <<>>, desc |-> <<>>, em |-> <<>>,
       ps |-> pre \o <<CreditPara(c)>>] :
        c \in CreditTexts,
        pre \in SeqsUpTo({Para(<<"min_hours">>, <<"3">>),
                          Para(<<"max_hours", ":">>, <<"0">>)}, 1) }

InitBlock ==
    /\ pc = "call"
    /\ block \in StructureBlocks \cup CreditBlocks
    /\ search_query \in Queries
    /\ final = <<>>
    /\ CatalogIdle /\ CleanIdle /\ TitleIdle /\ CacheIdle /\ SchedIdle

\* final = parse_course_block(block, search_query)
ParseBlock ==
    /\ pc = "call"
    /\ final' = parse_course_block(block, search_query)
    /\ pc' = "done"
    /\ UNCHANGED <<block, search_query, catalogVars, cleanVars, titleVars, cacheVars, schedVars>>

NextBlock == ParseBlock

SpecBlock == InitBlock /\ [][NextBlock]_vars

\* the keys of the returned record, in order
FinalKeys == [i \in 1..Len(final) |-> final[i][1]]

\* the record has a field k / the value of its (first) field k
HasField(k) == \E i \in 1..Len(final) : final[i][1] = k
FieldOf(k) == final[CHOOSE i \in 1..Len(final) : final[i][1] = k][2]

\* the labels of the fragment's labeled paragraphs
LabelsOf(b) == {RStripSet(b.ps[i].strong, {":"}) : i \in 1..Len(b.ps)}

\* the canonical schema as the specification lists it
CanonicalSchema == <<
    <<"course_code">>, <<"course_title">>, <<"Prerequisites">>, <<"Description">>,
    <<"Notes">>, <<"Credit Hours">>, <<"min_hours">>, <<"max_hours">>,
    <<"Min credits per semester">>, <<"Max credits per semester">>,
    <<"Max credits per degree">>, <<"Grading Option">>, <<"Offered">>,
    <<"Groups">>, <<"ACE">>, <<"Course and Laboratory Fee">>,
    <<"Experiential Learning">>, <<"Prerequisite for">> >>

\* the fragment supplies nothing for field k: no paragraph labeled k, and no
\* heading (code, title), description element (Description), term tag
\* (Offered) or Credit Hours paragraph (min_hours, max_hours)
AbsentFromFragment(k) ==
    /\ k \notin LabelsOf(block)
    /\ k \in {<<"course_code">>, <<"course_title">>} => block.title = <<>> /\ block.h3 = <<>>
    /\ k = <<"Description">> => block.desc = <<>>
    /\ k = <<"Offered">> => block.em = <<>>
    /\ k \in {<<"min_hours">>, <<"max_hours">>} => <<"Credit Hours">> \notin LabelsOf(block)

\* the value an absent field holds
DefaultOf(k) ==
    IF k = <<"Offered">> THEN List(<<>>)
    ELSE IF k = <<"course_code">> THEN Str(search_query)
    ELSE Str(<<>>)

AbsentFieldsDefault ==
    \A k \in {CanonicalSchema[i] : i \in 1..Len(CanonicalSchema)} :
        AbsentFromFragment(k) => HasField(k) /\ FieldOf(k) = DefaultOf(k)

\* C5 as stated: every record holds exactly 17 fields, the canonical ones in
\* canonical order, absent ones empty.
C5_AsStated ==
    pc = "done" => Len(final) = 17 /\ FinalKeys = CanonicalSchema /\ AbsentFieldsDefault

\* C5 (amended): every record parse_course_block returns holds exactly the 18
\* canonical fields, in canonical order, with no extras, whatever labels the
\* fragment has; a field the fragment supplies nothing for holds the empty
\* string (the empty list for Offered, the search query for course_code).
C5_RecordShape ==
    pc = "done" => Len(final) = 18 /\ FinalKeys = CanonicalSchema /\ AbsentFieldsDefault

\* C5 witness: a fragment with a label outside the schema and without a Notes
\* paragraph gave a canonical record
C5_Witness ==
    /\ pc = "done"
    /\ <<"Foo">> \in LabelsOf(block)
    /\ AbsentFromFragment(<<"Notes">>)
    /\ ~HasField(<<"Foo">>)
    /\ FinalKeys = CanonicalSchema

\* the Credit Hours text of the record and its numeric tokens
CreditText == IF HasField(<<"Credit Hours">>) THEN FieldOf(<<"Credit Hours">>)[2] ELSE <<>>
CreditNums == FindNums(CreditText)

MinHours == FieldOf(<<"min_hours">>)
MaxHours == FieldOf(<<"max_hours">>)
HoursPresent == HasField(<<"min_hours">>) /\ HasField(<<"max_hours">>)

\* min_hours is the first token and max_hours the second
FirstAndSecond ==
    /\ HoursPresent
    /\ MinHours = Float(ToFloat(CreditNums[1]))
    /\ MaxHours = Float(ToFloat(CreditNums[2]))

\* C7 as stated: with two or more numeric tokens in the Credit Hours text,
\* min_hours is the first, max_hours the second, and min_hours <= max_hours.
C7_AsStated ==
    (pc = "done" /\ Len(CreditNums) >= 2)
        => FirstAndSecond /\ MinHours[2] <= MaxHours[2]

\* C7 (amended): with two or more numeric tokens in the Credit Hours text,
\* min_hours is the first token and max_hours the second, in text order;
\* min_hours <= max_hours exactly when the first token is not the larger.
C7_CreditRange ==
    (pc = "done" /\ Len(CreditNums) >= 2)
        => /\ FirstAndSecond
           /\ (MinHours[2] <= MaxHours[2])
                  <=> (ToFloat(CreditNums[1]) <= ToFloat(CreditNums[2]))

\* C7 witness: "3.0 to 4.0 credit hours" gave min_hours 3.0 and max_hours 4.0
C7_Witness ==
    /\ pc = "done"
    /\ CreditText = <<"3", ".", "0", " ", "to", " ", "4", ".", "0", " ",
                      "credit", " ", "hours">>
    /\ HoursPresent
    /\ MinHours = Float(3 * Pow10(FloatDigits))
    /\ MaxHours = Float(4 * Pow10(FloatDigits))

\* C8 as stated: with exactly one numeric token min_hours = max_hours = its
\* value; with none, or without a Credit Hours paragraph, the record holds the
\* empty value for both.
C8_AsStated ==
    pc = "done" =>
        /\ Len(CreditNums) = 1 =>
              /\ HoursPresent
              /\ MinHours = Float(ToFloat(CreditNums[1]))
              /\ MaxHours = MinHours
        /\ (Len(CreditNums) = 0 \/ <<"Credit Hours">> \notin LabelsOf(block)) =>
              /\ HoursPresent
              /\ MinHours = Str(<<>>)
              /\ MaxHours = Str(<<>>)

\* C8 holds of the fragments that have no paragraph labeled min_hours or
\* max_hours
C8_WithoutCollision ==
    LabelsOf(block) \cap {<<"min_hours">>, <<"max_hours">>} = {} => C8_AsStated

\* a single token was found and a token-less Credit Hours text too
C8_WitnessOne ==
    /\ pc = "done" /\ Len(CreditNums) = 1 /\ HoursPresent
    /\ MinHours = Float(3 * Pow10(FloatDigits)) /\ MaxHours = MinHours

\* the fragment has a heading for the splitter: a title paragraph or an h3
HasHeading == block.title # <<>> \/ block.h3 # <<>>

\* what the Code/Title Splitter returned for the fragment's heading
SplitterParts == CodeAndTitle(block, search_query)

\* C11 as stated, for a search query that is not itself empty: course_code of
\* every record is a non-empty string.
C11_AsStated ==
    (pc = "done" /\ search_query # <<>>) =>
        /\ HasField(<<"course_code">>)
        /\ FieldOf(<<"course_code">>)[1] = "str"
        /\ FieldOf(<<"course_code">>)[2] # <<>>

\* C11 holds of the fragments that have no paragraph labeled course_code
C11_WithoutCollision ==
    <<"course_code">> \notin LabelsOf(block) => C11_AsStated

\* C12 as stated: course_code and course_title of the record are the pair the
\* splitter returned for the fragment's heading, whatever else the fragment
\* contains.
C12_AsStated ==
    (pc = "done" /\ HasHeading) =>
        /\ FieldOf(<<"course_code">>) = Str(SplitterParts[1])
        /\ FieldOf(<<"course_title">>) = Str(SplitterParts[2])

\* C12 holds of the fragments that have no paragraph labeled course_code or
\* course_title
C12_WithoutCollision ==
    LabelsOf(block) \cap {<<"course_code">>, <<"course_title">>} = {} => C12_AsStated

\* the paragraphs labeled Offered, in document order
OfferedParas == SelectSeq(block.ps, LAMBDA p : RStripSet(p.strong, {":"}) = <<"Offered">>)

\* the raw offered text: the term tag's text, else the value of the last
\* paragraph labeled Offered, else absent
RawOffered ==
    IF block.em # <<>> THEN block.em
    ELSE IF OfferedParas # <<>>
    THEN LET p == OfferedParas[Len(OfferedParas)]
         IN  <<clean_value(Replace(p.text, p.strong, <<>>))>>
    ELSE <<>>

\* s with its whitespace removed
WithoutWhitespace(s) == SelectSeq(s, LAMBDA c : ~IsSpace(c))

\* C13 as stated: Offered is a list; a present, non-empty raw offered text gives
\* that text with its whitespace removed, split on "/"; an absent or empty one
\* gives the empty list.
C13_AsStated ==
    pc = "done" =>
        /\ FieldOf(<<"Offered">>)[1] = "list"
        /\ (RawOffered # <<>> /\ RawOffered[1] # <<>>)
              => FieldOf(<<"Offered">>)[2] = Split(WithoutWhitespace(RawOffered[1]), "/")
        /\ (RawOffered = <<>> \/ RawOffered[1] = <<>>)
              => FieldOf(<<"Offered">>)[2] = <<>>

\* C13 holds of the raw texts whose only whitespace is the ordinary space
C13_SpacesOnly ==
    (RawOffered # <<>> /\ \E i \in 1..Len(RawOffered[1]) : RawOffered[1][i] \in {NBSP, TAB})
        \/ C13_AsStated

-----------------------------------------------------------------------------
(* get_unl_course_info (unl.py 134-168)                                    *)
(*                                                                         *)
(* A response is its status code and the div.courseblock fragments of its   *)
(* body in document order (what soup.find_all gives once the body parses).  *)
(* A returned value is <<"dict", pairs>> or <<"list", records>>.  An        *)
(* exception is its class and its str().                                   *)

MaxBlocks == 3

Terms == { <<>>, <<"a">>, <<"A", "A", " ", "1">>, <<" ", "a", " ", " ", "b">> }

\* the fragments of the documents: one with nothing in it, one with its own
\* title paragraph, one of a results page (heading in the article's h3)
DocBlocks == {
    [title |-> <<>>, h3 |-> <<>>, desc |-> <<>>, ps |-> <<>>, em |-> <<>>],
    [title |-> << <<"A", "A", NBSP, "1", " ", "a">> >>, h3 |-> <<>>,
     desc |-> << <<"a">> >>, ps |-> <<CreditPara(<<"1", "-", "3">>)>>,
     em |-> << <<"FALL", "/", "SPR">> >>],
    [title |-> <<>>, h3 |-> << <<"B", "B", " ", "2", " ", "b">> >>,
     desc |-> <<>>, ps |-> <<Para(<<"Notes", ":">>, <<"a">>)>>, em |-> <<>>] }

Documents == SeqsUpTo(DocBlocks, MaxBlocks)

\* status codes a server answers with (after redirects were followed)
Statuses == {200, 304, 404, 503}

\* what requests.get raises: Timeout and ConnectionError, both RequestException
GetExceptions == {
    [class |-> "RequestException", text |-> <<"Read timed out">>],
    [class |-> "RequestException", text |-> <<"Connection refused">>] }

\* a call that never checks the status
RaisesForStatus_Never(status) == FALSE

\* Response.raise_for_status: HTTPError, a RequestException, for 4xx and 5xx
RaisesForStatus(status) == 400 <= status /\ status < 600
HTTPError(status) ==
    [class |-> "RequestException", text |-> <<ToString(status), " Error for url">>]

\* what the parser raises when it rejects the markup
ParserRejected == [class |-> "Exception", text |-> <<"parser rejected markup">>]

ErrorDict(msg) == <<"dict", << << <<"error">>, Str(msg) >> >> >>

\* the message of line 154 built from the encoded query
NotFoundMessage_Encoded(term) ==
    <<"No courses found for '">> \o Replace(term, <<" ">>, <<"%", "2", "0">>) \o <<"'">>

\* line 154
NotFoundMessage(term) == <<"No courses found for '">> \o term \o <<"'">>
\* line 166
FetchFailedMessage(e) == <<"Failed to fetch course info: ">> \o e.text
\* line 168
ProcessingMessage(e) == <<"Error processing course info: ">> \o e.text

\* the except clauses without the catch-all of lines 167-168
Except_NoCatchAll(e) ==
    IF e.class = "RequestException"
    THEN [result |-> <<ErrorDict(FetchFailedMessage(e))>>, propagated |-> <<>>]
    ELSE [result |-> <<>>, propagated |-> <<e>>]

\* lines 165-168: what an exception raised in the try block leads to
Except(e) ==
    IF e.class = "RequestException"
    THEN [result |-> <<ErrorDict(FetchFailedMessage(e))>>, propagated |-> <<>>]
    ELSE IF e.class = "Exception"
    THEN [result |-> <<ErrorDict(ProcessingMessage(e))>>, propagated |-> <<>>]
    ELSE [result |-> <<>>, propagated |-> <<e>>]

\* the call ends with exception e raised in the try block
Raise(e) ==
    /\ result' = Except(e).result
    /\ propagated' = Except(e).propagated
    /\ pc' = IF Except(e).propagated = <<>> THEN "Returned" ELSE "Raised"

Init ==
    /\ pc = "Build"
    /\ course_code \in Terms
    /\ query = <<>> /\ blocks = <<>> /\ courses = <<>> /\ result = <<>>
    /\ propagated = <<>> /\ gets = 0 /\ r = [kind |-> "none"]
    /\ CleanIdle /\ TitleIdle /\ BlockIdle /\ CacheIdle /\ SchedIdle

\* line 144
EncodeQuery(term) == Replace(term, <<" ">>, <<"%", "2", "0">>)

\* lines 144-145
Build ==
    /\ pc = "Build"
    /\ query' = EncodeQuery(course_code)
    /\ pc' = "Get"
    /\ UNCHANGED <<course_code, blocks, courses, result, propagated, gets, r,
                   cleanVars, titleVars, blockVars, cacheVars, schedVars>>

\* line 148: requests.get answers
GetResponds ==
    /\ pc = "Get"
    /\ gets' = gets + 1
    /\ \E st \in Statuses, doc \in Documents :
           r' = [kind |-> "response", status |-> st, body |-> doc]
    /\ pc' = "Status"
    /\ UNCHANGED <<course_code, query, blocks, courses, result, propagated,
                   cleanVars, titleVars, blockVars, cacheVars, schedVars>>

\* line 148: requests.get raises (timeout, connection failure)
GetRaises ==
    /\ pc = "Get"
    /\ gets' = gets + 1
    /\ \E e \in GetExceptions :
           /\ r' = [kind |-> "raised", exception |-> e]
           /\ Raise(e)
    /\ UNCHANGED <<course_code, query, blocks, courses,
                   cleanVars, titleVars, blockVars, cacheVars, schedVars>>

\* line 149
RaiseForStatus ==
    /\ pc = "Status"
    /\ IF RaisesForStatus(r.status)
       THEN Raise(HTTPError(r.status))
       ELSE pc' = "Parse" /\ UNCHANGED <<result, propagated>>
    /\ UNCHANGED <<course_code, query, blocks, courses, gets, r,
                   cleanVars, titleVars, blockVars, cacheVars, schedVars>>

\* lines 150-152: the body parses and the fragments are located
Parse ==
    /\ pc = "Parse"
    /\ blocks' = <<r.body>>
    /\ pc' = "Check"
    /\ UNCHANGED <<course_code, query, courses, result, propagated, gets, r,
                   cleanVars, titleVars, blockVars, cacheVars, schedVars>>

\* line 150: the parser rejects the body
ParseRaises ==
    /\ pc = "Parse"
    /\ Raise(ParserRejected)
    /\ UNCHANGED <<course_code, query, blocks, courses, gets, r,
                   cleanVars, titleVars, blockVars, cacheVars, schedVars>>

\* lines 153-154
CheckFound ==
    /\ pc = "Check"
    /\ IF blocks[1] = <<>>
       THEN /\ result' = <<ErrorDict(NotFoundMessage(course_code))>>
            /\ pc' = "Returned"
       ELSE /\ pc' = "Extract"
            /\ UNCHANGED result
    /\ UNCHANGED <<course_code, query, blocks, courses, propagated, gets, r,
                   cleanVars, titleVars, blockVars, cacheVars, schedVars>>

\* line 157
ExtractAll ==
    /\ pc = "Extract"
    /\ courses' = << [i \in 1..Len(blocks[1]) |->
                         parse_course_block(blocks[1][i], course_code)] >>
    /\ pc' = "Shape"
    /\ UNCHANGED <<course_code, query, blocks, result, propagated, gets, r,
                   cleanVars, titleVars, blockVars, cacheVars, schedVars>>

\* the shape decision that always returns the list
ShapeOf_AlwaysList(cs) == <<"list", cs>>

\* lines 160-163
ShapeOf(cs) == IF Len(cs) = 1 THEN <<"dict", cs[1]>> ELSE <<"list", cs>>

\* lines 159-163
Shape ==
    /\ pc = "Shape"
    /\ result' = <<ShapeOf(courses[1])>>
    /\ pc' = "Returned"
    /\ UNCHANGED <<course_code, query, blocks, courses, propagated, gets, r,
                   cleanVars, titleVars, blockVars, cacheVars, schedVars>>

Next ==
    \/ Build \/ GetResponds \/ GetRaises \/ RaiseForStatus
    \/ Parse \/ ParseRaises \/ CheckFound \/ ExtractAll \/ Shape

Spec == Init /\ [][Next]_vars

\* s occurs in msg
Contains(msg, s) ==
    \E i \in 0..(Len(msg) - Len(s)) : SubSeq(msg, i + 1, i + Len(s)) = s

Returned == pc = "Returned"

\* the returned value is an error dict: one key, "error", and its message
IsError(val) ==
    /\ val[1] = "dict"
    /\ Len(val[2]) = 1
    /\ val[2][1][1] = <<"error">>
ErrorMessage(val) == val[2][1][2][2]

\* the returned value is one course record
IsRecord(val) ==
    /\ val[1] = "dict"
    /\ [i \in 1..Len(val[2]) |-> val[2][i][1]] = CanonicalSchema

\* the fragments were located (line 152 ran), and how many
Located == blocks # <<>>
Fragments == blocks[1]

\* C1: when the fetch succeeds, one fragment gives that single record itself,
\* not a one-element list, and two or more give the list of their records in
\* document order.
C1_Shape ==
    (Returned /\ Located /\ Len(Fragments) >= 1) =>
        /\ Len(Fragments) = 1 =>
              /\ result[1][1] = "dict"
              /\ result[1][2] = parse_course_block(Fragments[1], course_code)
        /\ Len(Fragments) >= 2 =>
              /\ result[1][1] = "list"
              /\ Len(result[1][2]) = Len(Fragments)
              /\ \A i \in 1..Len(Fragments) :
                     result[1][2][i] = parse_course_block(Fragments[i], course_code)

\* C1 witness: a document with one fragment gave the record itself
C1_Witness ==
    /\ Returned /\ Located /\ Len(Fragments) = 1
    /\ IsRecord(result[1])

\* the fetch failed: requests.get raised, or the status is one of `failing`
FetchFailed(failing) ==
    \/ r.kind = "raised"
    \/ r.kind = "response" /\ r.status \in failing

\* the text of the failure
FailureText ==
    IF r.kind = "raised" THEN r.exception.text
    ELSE <<ToString(r.status), " Error for url">>

NotFoundVersusTransport(failing) ==
    /\ (Returned /\ Located /\ Fragments = <<>>) =>
          /\ IsError(result[1])
          /\ Contains(ErrorMessage(result[1]), course_code)
          /\ StartsWith(ErrorMessage(result[1]), <<"No courses found for '">>)
          /\ ~StartsWith(ErrorMessage(result[1]), <<"Failed to fetch course info: ">>)
    /\ (Returned /\ FetchFailed(failing)) =>
          /\ IsError(result[1])
          /\ ~StartsWith(ErrorMessage(result[1]), <<"No courses found for '">>)

FetchStep(failing) ==
    /\ gets <= 1
    /\ pc \notin {"Build", "Get"} => gets = 1
    /\ FetchFailed(failing) =>
          /\ pc \in {"Status", "Returned"}
          /\ blocks = <<>> /\ courses = <<>>
          /\ Returned =>
                /\ IsError(result[1])
                /\ Contains(ErrorMessage(result[1]), FailureText)

Rank(p) ==
    CASE p = "Build" -> 0 [] p = "Get" -> 1 [] p = "Status" -> 2 [] p = "Parse" -> 3
      [] p = "Check" -> 4 [] p = "Extract" -> 5 [] p = "Shape" -> 6
      [] p = "Returned" -> 7 [] p = "Raised" -> 7

\* a call that has not returned is at a step that can be taken: each action's
\* guard is its position, and what it reads is there
CanStep ==
    /\ pc \in {"Build", "Get", "Status", "Parse", "Check", "Extract", "Shape"}
    /\ pc \in {"Status", "Parse"} => r.kind = "response"
    /\ pc \in {"Check", "Extract"} => Located
    /\ pc = "Shape" => courses # <<>>

NoExceptionLeaves ==
    /\ propagated = <<>> /\ pc # "Raised"
    /\ ~Returned => CanStep /\ result = <<>>
    /\ Returned =>
          \/ IsError(result[1])
          \/ IsRecord(result[1])
          \/ /\ result[1][1] = "list"
             /\ \A i \in 1..Len(result[1][2]) : IsRecord(<<"dict", result[1][2][i]>>)
    /\ (Returned /\ Located /\ Fragments # <<>>) =>
          /\ ~IsError(result[1])
          /\ result[1][1] = "list" => Len(result[1][2]) = Len(Fragments)

\* C4: whatever the fetch, the parse and the extraction do, the call ends by
\* returning a record, a list of records or an error with a message, and no
\* exception leaves it; fragments that miss title, description or labeled
\* fields still give records.  Every step takes the call nearer its end, a
\* call that has not returned can step, and its only end is a returned value.
C4_FailuresAsValues == [](NoExceptionLeaves) /\ [][Rank(pc') > Rank(pc)]_vars

\* C4 witness: a fragment with no title, description or labeled field gave a
\* record
C4_Witness ==
    /\ Returned /\ Located /\ Len(Fragments) = 1
    /\ Fragments[1].title = <<>> /\ Fragments[1].desc = <<>> /\ Fragments[1].ps = <<>>
    /\ IsRecord(result[1])

-----------------------------------------------------------------------------
(* get_professor_summary (agent/tools/rmp_tool.py 34-109)                   *)
(*                                                                         *)
(* None is <<"None">>; a summary dict is <<"dict", pairs>> with its        *)
(* <<key, value>> pairs in order, a value being <<"str", s>> or            *)
(* <<"num", s>> (s the digits str() writes for it); the markdown table is   *)
(* <<"md", cells>>.  The cache is a function from its keys to the stored    *)
(* (summary, markdown) pairs.  calls is the history of the calls made, one  *)
(* after another: the argument, whether the call invoked the RMP client,    *)
(* and how it ended.                                                       *)

MaxCalls == 3

None == <<"None">>
Num(s) == <<"num", s>>

RECURSIVE SplitWords(_)
\* str.split(): the maximal runs of non-whitespace characters
SplitWords(s) ==
    IF s = <<>> THEN <<>>
    ELSE IF IsSpace(Head(s)) THEN SplitWords(Tail(s))
    ELSE LET n == Run(s, 1, {c \in {s[i] : i \in 1..Len(s)} : ~IsSpace(c)})
         IN  <<SubSeq(s, 1, n)>> \o SplitWords(SubSeq(s, n + 1, Len(s)))

RECURSIVE Join(_, _)
\* sep.join(words)
Join(words, sep) ==
    IF words = <<>> THEN <<>>
    ELSE IF Len(words) = 1 THEN words[1]
    ELSE words[1] \o sep \o Join(Tail(words), sep)

\* lines 38-41 without the split and join
normalize_professor_name_StripOnly(professor_name) == Strip(professor_name)

\* lines 38-41
normalize_professor_name(professor_name) ==
    Join(SplitWords(Strip(professor_name)), <<" ">>)

\* dict.get(key, "") on a summary
SummaryGet(summary, key) ==
    IF \E i \in 1..Len(summary[2]) : summary[2][i][1] = key
    THEN summary[2][CHOOSE i \in 1..Len(summary[2]) : summary[2][i][1] = key][2]
    ELSE Str(<<>>)

\* lines 44-80: the five cells of the table's data row
generate_professor_summary_markdown_table(summary) ==
    LET wta == SummaryGet(summary, "would_take_again")
    IN  IF summary[2] = <<>> THEN Str(<<>>) ELSE
        <<"md",
          << Replace(SummaryGet(summary, "name")[2], <<"|">>, <<"\\", "|">>),
             SummaryGet(summary, "rating")[2],
             SummaryGet(summary, "difficulty")[2],
             SummaryGet(summary, "num_ratings")[2],
             IF wta[1] = "num" THEN wta[2] \o <<"%">> ELSE wta[2] >> >>

\* lines 101-104: summary and isinstance(summary, dict)
MarkdownOf(summary) ==
    IF summary[1] = "dict" /\ summary[2] # <<>>
    THEN generate_professor_summary_markdown_table(summary)
    ELSE None

\* the professor_name arguments: two spellings of "a", three of "a b", one
\* that is whitespace only
ProfessorNames == {
    <<"a">>, <<" ", "a">>,
    <<"a", " ", "b">>, <<"a", " ", " ", "b">>, <<"a", TAB, "b", " ">>,
    <<" ">> }

\* what the RMP client answers with: nothing, an empty summary, or a summary
Summaries == {
    None,
    <<"dict", <<>>>>,
    <<"dict", << <<"name", Str(<<"A", "|", "B">>)>>,
                 <<"rating", Num(<<"4", ".", "5">>)>>,
                 <<"would_take_again", Num(<<"8", "0">>)>> >> >>,
    <<"dict", << <<"name", Str(<<"A">>)>>,
                 <<"would_take_again", Str(<<"N", "/", "A">>)>> >> >> }

\* the exceptions a lookup over the network ends with
ClientErrors == {"ConnectionError"}

InitCache ==
    /\ pc = "idle"
    /\ cache = <<>>
    /\ calls = <<>>
    /\ CatalogIdle /\ CleanIdle /\ TitleIdle /\ BlockIdle /\ SchedIdle

\* one more call is made
Called(name, inv, kind, value) ==
    /\ pc = "idle"
    /\ Len(calls) < MaxCalls
    /\ calls' = Append(calls, [name |-> name, invoked |-> inv, kind |-> kind,
                               value |-> value])
    /\ UNCHANGED <<pc, catalogVars, cleanVars, titleVars, blockVars, schedVars>>

\* lines 84-86: no professor_name in the payload, or an empty one
MissingName ==
    /\ Called(<<>>, FALSE, "raised", <<"ValueError">>)
    /\ UNCHANGED cache

\* lines 88-94: the normalized name is in the cache
CacheHit(name) ==
    /\ normalize_professor_name(name) \in DOMAIN cache
    /\ Called(name, FALSE, "returned", cache[normalize_professor_name(name)])
    /\ UNCHANGED cache

\* lines 88-109: a miss, the client answers, the pair is stored and returned
Fetch(name, summary) ==
    /\ normalize_professor_name(name) \notin DOMAIN cache
    /\ cache' = DictSet(cache, normalize_professor_name(name),
                        <<summary, MarkdownOf(summary)>>)
    /\ Called(name, TRUE, "returned", <<summary, MarkdownOf(summary)>>)

\* lines 88-99: a miss, the client raises and the exception leaves the handler
ClientRaises(name, e) ==
    /\ normalize_professor_name(name) \notin DOMAIN cache
    /\ Called(name, TRUE, "raised", <<e>>)
    /\ UNCHANGED cache

NextCache ==
    \/ MissingName
    \/ \E name \in ProfessorNames : CacheHit(name)
    \/ \E name \in ProfessorNames, summary \in Summaries : Fetch(name, summary)
    \/ \E name \in ProfessorNames, e \in ClientErrors : ClientRaises(name, e)

SpecCache == InitCache /\ [][NextCache]_vars

\* the key the claim gives a name: stripped, every whitespace run one space
CollapsedName(name) ==
    LET s    == Strip(name)
        keep == SelectSeq([i \in 1..Len(s) |-> i],
                          LAMBDA i : ~IsSpace(s[i]) \/ ~IsSpace(s[i - 1]))
    IN  [j \in 1..Len(keep) |-> IF IsSpace(s[keep[j]]) THEN " " ELSE s[keep[j]]]

SameKey(i, j) == CollapsedName(calls[i].name) = CollapsedName(calls[j].name)

\* the client was invoked at most once for each key
InvokedOncePerKey ==
    \A i, j \in 1..Len(calls) :
        (calls[i].invoked /\ calls[j].invoked /\ SameKey(i, j)) => i = j

\* once a call for a key has returned, no later call for it invokes the client
NoInvocationAfterReturn ==
    \A i, j \in 1..Len(calls) :
        (i < j /\ calls[i].kind = "returned" /\ SameKey(i, j)) => ~calls[j].invoked

\* every call that returns gives the pair the first returned call for its key gave
SameAsFirstReturned ==
    \A i, j \in 1..Len(calls) :
        (i < j /\ calls[i].kind = "returned" /\ calls[j].kind = "returned" /\ SameKey(i, j))
            => calls[j].value = calls[i].value

\* the pair a returned invocation stored is still in the cache under its key
EntriesKept ==
    \A i \in 1..Len(calls) :
        (calls[i].invoked /\ calls[i].kind = "returned")
            => /\ CollapsedName(calls[i].name) \in DOMAIN cache
               /\ cache[CollapsedName(calls[i].name)] = calls[i].value

\* C15 as stated: after any sequence of calls the client has been invoked at
\* most once for each normalized name, every later call for a key returns the
\* pair of the first completed call for it, and no cache entry has been
\* overwritten or removed.
C15_AsStated == InvokedOncePerKey /\ SameAsFirstReturned /\ EntriesKept

\* C15 (amended): after any sequence of calls, no call for a key has invoked
\* the client once a call for that key had returned (so at most one invocation
\* per key returns; a call whose invocation raises stores nothing and the next
\* call for the key invokes the client again), every later call for a key
\* returns the pair of the first completed call for it, and no cache entry has
\* been overwritten or removed.
C15_CacheOnReturn == NoInvocationAfterReturn /\ SameAsFirstReturned /\ EntriesKept

\* C15 witness: a call under another spelling of a cached name returned the
\* first call's pair without invoking the client
C15_Witness ==
    \E i, j \in 1..Len(calls) :
        /\ i < j /\ SameKey(i, j) /\ calls[i].name # calls[j].name
        /\ calls[i].invoked /\ calls[i].kind = "returned"
        /\ ~calls[j].invoked /\ calls[j].kind = "returned"
        /\ calls[j].value = calls[i].value
        /\ calls[i].value[2] # None

-----------------------------------------------------------------------------
(* generate_schedule (agent/tools/generate_schedule_tool.py 53-184) and the *)
(* course-info handler it calls (agent/tools/course_info_tool.py 28-83)     *)
(*                                                                         *)
(* A JSON value is None, <<"str", s>>, <<"int", s>>, <<"bool", b>>,        *)
(* <<"list", items>> or <<"dict", pairs>>; an entry of the courses array    *)
(* that is an object is the dict of its course_id and section_id.  A call   *)
(* of a function gives <<"return", value>> or <<"raise", class>>.           *)

MaxCourses == 2

Dict(pairs) == <<"dict", pairs>>

\* bool(x)
Truthy(x) ==
    CASE x[1] = "None" -> FALSE
      [] x[1] = "bool" -> x[2]
      [] OTHER -> x[2] # <<>>

\* d.get(key, default)
DictGet(d, key, default) ==
    IF \E i \in 1..Len(d[2]) : d[2][i][1] = key
    THEN d[2][CHOOSE i \in 1..Len(d[2]) : d[2][i][1] = key][2]
    ELSE default

\* course_info_tool.py 28-52: the keys of the catalog and the keys every entry has
MOCK_COURSES == { <<"CSCE", " ", "123">>, <<"MATH", " ", "208">> }
MockDetails ==
    Dict(<< <<"title", Str(<<"a">>)>>, <<"description", Str(<<"a">>)>>,
            <<"credits", <<"int", <<"3">>>>>>, <<"prerequisites", List(<<"a">>)>>,
            <<"instructors", List(<<"a">>)>>, <<"delivery", List(<<"a">>)>> >>)

\* course_info_tool.py 55-56
normalize_course_id(course_id) == Join(SplitWords(Upper(Strip(course_id))), <<" ">>)

\* course_info_tool.py 59-83, for a str course_id
handle_get_course_info(course_id) ==
    IF course_id = <<>> THEN <<"raise", "ValueError">>
    ELSE LET normalized_id == normalize_course_id(course_id)
         IN  IF normalized_id \in MOCK_COURSES
             THEN <<"return", Dict(<< <<"course_id", Str(normalized_id)>>,
                                      <<"found", <<"bool", TRUE>>>>,
                                      <<"data", MockDetails>>,
                                      <<"message", Str(<<"retrieved">>)>> >>)>>
             ELSE <<"return", Dict(<< <<"course_id", Str(normalized_id)>>,
                                      <<"found", <<"bool", FALSE>>>>,
                                      <<"data", None>>,
                                      <<"message", Str(<<"not available">>)>> >>)>>

\* a, b = x for a dict x: its keys when there are exactly two of them
Unpack2(x) ==
    IF Len(x[2]) = 2 THEN <<"return", <<Str(x[2][1][1]), Str(x[2][2][1])>>>>
    ELSE <<"raise", "ValueError">>

\* lines 89-90: the call and the unpacking of its result, inside the try
FetchInfo(normalized_course_id) ==
    LET res == handle_get_course_info(normalized_course_id)
    IN  IF res[1] = "raise" THEN res ELSE Unpack2(res[2])

\* lines 96-127 for the unpacked course_info_result
AfterFetch(course_info_result, course_id, section_id, normalized_course_id) ==
    IF course_info_result[1] # "dict" THEN <<"raise", "AttributeError">>
    ELSE IF ~Truthy(DictGet(course_info_result, "found", None))
    THEN <<"error", <<"not found", course_id>>>>
    ELSE LET data == DictGet(course_info_result, "data", Dict(<<>>))
         IN  IF data[1] # "dict" THEN <<"raise", "AttributeError">>
             ELSE LET catalog  == DictGet(data, "catalog", Dict(<<>>))
                      blocks_  == DictGet(data, "registration_blocks", Dict(<<>>))
                      sections == DictGet(blocks_, "sections", List(<<>>))[2]
                      matches  == SelectSeq(sections, LAMBDA sec :
                                      /\ sec[1] = "dict"
                                      /\ DictGet(sec, "sectionNumber", None) = section_id)
                  IN  IF matches = <<>> \/ ~Truthy(matches[1])
                      THEN <<"error", <<"section not found", section_id, course_id>>>>
                      ELSE <<"append",
                             [catalog |-> IF \/ \E i \in 1..Len(catalog[2]) :
                                                    catalog[2][i][1] = "course_code"
                                             \/ normalized_course_id = <<>>
                                          THEN catalog
                                          ELSE Dict(Append(catalog[2],
                                                   <<"course_code", Str(normalized_course_id)>>)),
                              section |-> matches[1]]>>

\* lines 69-127: one entry of the array; i is its index
EntryStep(course_obj, i) ==
    IF course_obj[1] # "dict" THEN <<"error", <<"not an object", i>>>>
    ELSE LET course_id  == DictGet(course_obj, "course_id", None)
             section_id == DictGet(course_obj, "section_id", None)
         IN  IF ~Truthy(course_id) THEN <<"error", <<"missing course_id", i>>>>
             ELSE IF ~Truthy(section_id) THEN <<"error", <<"missing section_id", i>>>>
             ELSE IF course_id[1] # "str" THEN <<"raise", "AttributeError">>
             ELSE LET normalized_course_id == normalize_course_id(course_id[2])
                      fetched == FetchInfo(normalized_course_id)
                  IN  IF fetched[1] = "raise"
                      THEN <<"error", <<"failed to fetch info", course_id, fetched[2]>>>>
                      ELSE AfterFetch(fetched[2][1], course_id, section_id,
                                      normalized_course_id)

\* the values an entry gives course_id and section_id
CourseIdValues == {
    Str(<<>>), Str(<<" ">>), Str(<<"csce", " ", " ", "123">>),
    Str(<<"MATH", " ", "208">>), Str(<<"A", "A", " ", "1">>), <<"int", <<"1">>>> }
SectionIdValues == { Str(<<>>), Str(<<"0", "0", "1">>) }

\* the object with the given fields; <<>> leaves the field out
CourseObj(c, sec) ==
    Dict((IF c = <<>> THEN <<>> ELSE << <<"course_id", c[1]>> >>)
           \o (IF sec = <<>> THEN <<>> ELSE << <<"section_id", sec[1]>> >>))

CourseEntries ==
    {Str(<<"a">>)} \cup
    { CourseObj(c, sec) : c \in {<<>>} \cup Present(CourseIdValues),
                          sec \in {<<>>} \cup Present(SectionIdValues) }

\* payload.get("courses")
Payloads ==
    {None, Str(<<"a">>), CourseObj(<<>>, <<>>)}
        \cup {List(l) : l \in SeqsUpTo(CourseEntries, MaxCourses)}

InitSchedule ==
    /\ pc = "call"
    /\ payload \in Payloads
    /\ idx = 0
    /\ course_data_list = <<>>
    /\ errors = <<>>
    /\ outcome = [kind |-> "none"]
    /\ CatalogIdle /\ CleanIdle /\ TitleIdle /\ BlockIdle /\ CacheIdle

SchedFrame == UNCHANGED <<payload, catalogVars, cleanVars, titleVars, blockVars, cacheVars>>

\* lines 55-63
Validate ==
    /\ pc = "call"
    /\ IF ~Truthy(payload) \/ payload[1] # "list"
       THEN pc' = "done" /\ outcome' = [kind |-> "raised", value |-> "ValueError"]
       ELSE pc' = "loop" /\ UNCHANGED outcome
    /\ UNCHANGED <<idx, course_data_list, errors>>
    /\ SchedFrame

\* lines 69-127: one iteration of the loop
Entry ==
    /\ pc = "loop"
    /\ idx < Len(payload[2])
    /\ LET step == EntryStep(payload[2][idx + 1], idx)
       IN  CASE step[1] = "error" ->
                   /\ errors' = Append(errors, step[2])
                   /\ idx' = idx + 1
                   /\ UNCHANGED <<pc, course_data_list, outcome>>
             [] step[1] = "append" ->
                   /\ course_data_list' = Append(course_data_list, step[2])
                   /\ idx' = idx + 1
                   /\ UNCHANGED <<pc, errors, outcome>>
             [] step[1] = "raise" ->
                   /\ pc' = "done"
                   /\ outcome' = [kind |-> "raised", value |-> step[2]]
                   /\ UNCHANGED <<idx, course_data_list, errors>>
    /\ SchedFrame

\* lines 130-136: the loop is over
Collected ==
    /\ pc = "loop"
    /\ idx = Len(payload[2])
    /\ IF errors # <<>> /\ course_data_list = <<>>
       THEN /\ pc' = "done"
            /\ outcome' = [kind |-> "returned",
                           value |-> << Dict(<< <<"success", <<"bool", FALSE>>>>,
                                                <<"error", Str(<<"Failed to process all courses.">>)>>,
                                                <<"errors", List(errors)>> >>),
                                        None >>]
       ELSE pc' = "render" /\ UNCHANGED outcome
    /\ UNCHANGED <<idx, course_data_list, errors>>
    /\ SchedFrame

\* lines 139-175: the renderer and the file write succeed
Rendered ==
    /\ pc = "render"
    /\ pc' = "done"
    /\ outcome' = [kind |-> "returned",
                   value |-> << Dict(<< <<"success", <<"bool", TRUE>>>>,
                                        <<"courses_processed", Len(course_data_list)>> >>
                                     \o (IF errors # <<>>
                                         THEN << <<"warnings", List(errors)>> >> ELSE <<>>)),
                                Str(<<"![Course Schedule]">>) >>]
    /\ UNCHANGED <<idx, course_data_list, errors>>
    /\ SchedFrame

\* lines 177-184: the renderer or the file write raises
RenderFailed ==
    /\ pc = "render"
    /\ pc' = "done"
    /\ outcome' = [kind |-> "returned",
                   value |-> << Dict(<< <<"success", <<"bool", FALSE>>>>,
                                        <<"error", Str(<<"Failed to generate schedule PNG">>)>> >>
                                     \o (IF errors # <<>>
                                         THEN << <<"errors", List(errors)>> >> ELSE <<>>)),
                                None >>]
    /\ UNCHANGED <<idx, course_data_list, errors>>
    /\ SchedFrame

NextSchedule == Validate \/ Entry \/ Collected \/ Rendered \/ RenderFailed

SpecSchedule == InitSchedule /\ [][NextSchedule]_vars

\* no entry is ever added to the list for the renderer and the renderer is
\* never reached: every returned result has success = false
RendererNeverReached ==
    /\ course_data_list = <<>>
    /\ pc # "render"
    /\ outcome.kind = "returned" => DictGet(outcome.value[1], "success", None) = <<"bool", FALSE>>

\* a found course with a section id was recorded as a failed fetch
FoundCourseFailed ==
    /\ pc = "done" /\ outcome.kind = "returned"
    /\ \E i \in 1..Len(payload[2]) :
          /\ payload[2][i] = CourseObj(<<Str(<<"MATH", " ", "208">>)>>,
                                       <<Str(<<"0", "0", "1">>)>>)
          /\ errors[i] = <<"failed to fetch info", Str(<<"MATH", " ", "208">>), "ValueError">>

=============================================================================
